---- MODULE Spec2Model ----
(***************************************************************************)
(* optpy: a compiler from a Python subset to Rust, and its runtime.        *)
(*                                                                         *)
(*   optpy-parser/src/statement.rs   lowering of the syntax tree to the IR *)
(*   optpy-generator/src/lib.rs      emission of Rust from the IR          *)
(*   optpy-std/src/object.rs         the runtime Object / ObjectRef        *)
(*                                                                         *)
(* Two specifications share this module.  SpecObj drives the runtime       *)
(* operations of object.rs on a small heap.  Spec takes a syntax tree      *)
(* through Statement::parse, the definition analysis and generate_code,    *)
(* and then runs the emitted main() statement by statement on that heap.   *)
(***************************************************************************)
EXTENDS Integers, Sequences, FiniteSets, TLC

VARIABLES
    heap,        \* [cells, lists]: the Rc<UnsafeRefCell<..>> cells and list storages
    objs,        \* SpecObj: the Objects the driver holds
    handle,      \* SpecObj: the ObjectRef the driver holds, [live, cell]
    last,        \* SpecObj: what the last runtime operation was and how it ended
    nops,        \* SpecObj: number of operations done
    input,       \* Spec: the parameters the syntax tree is built from
    status,      \* Spec: position of the pipeline / of the running program
    ir,          \* Spec: Vec<Statement>, the output of Statement::parse
    definitions, \* Spec: BTreeMap<String, BTreeSet<String>>
    code,        \* Spec: the emitted Rust, as a tree
    env,         \* Spec: the local variables of main()
    todo,        \* Spec: the statements of main() still to run
    out          \* Spec: the lines printed so far

vars == <<heap, objs, handle, last, nops, input, status, ir, definitions, code, env, todo, out>>

objVars == <<heap, objs, handle, last, nops>>
runVars == <<input, status, ir, definitions, code, env, todo, out>>

(***************************************************************************)
(* Bounds of the model.                                                    *)
(***************************************************************************)
MaxOps == 2
MaxLen == 3
MaxConds == 3
MaxFuel == 6

\* the parameters a syntax tree is built from
Inp(fam, mode, xs, i, j, k) == [fam |-> fam, mode |-> mode, xs |-> xs, i |-> i, j |-> j, k |-> k]

(***************************************************************************)
(* Value (optpy-std/src/value.rs is not part of the sources at hand; the   *)
(* list layout is the one From<Vec<Object>> of object.rs builds).          *)
(***************************************************************************)
NoneV == [k |-> "none", v |-> 0]
IntV(n) == [k |-> "int", v |-> n]
BoolV(b) == [k |-> "bool", v |-> IF b THEN 1 ELSE 0]
StrV(c) == [k |-> "str", v |-> c]
ListV(id) == [k |-> "list", v |-> id]

EmptyHeap == [cells |-> <<>>, lists |-> <<>>]

\* Rc::new(UnsafeRefCell::new(v)): a fresh cell holding v
NewCell(h, v) == [h |-> [h EXCEPT !.cells = Append(@, v)], cell |-> Len(h.cells) + 1]

SetCell(h, c, v) == [h EXCEPT !.cells[c] = v]

\* a fresh list storage holding the given cells
NewList(h, cs) == [h |-> [h EXCEPT !.lists = Append(@, cs)], val |-> ListV(Len(h.lists) + 1)]

RECURSIVE NewCells(_, _)
\* fresh cells for a sequence of values: [h, cells]
NewCells(h, vs) ==
    IF vs = <<>> THEN [h |-> h, cells |-> <<>>]
    ELSE LET r == NewCell(h, Head(vs))
             rest == NewCells(r.h, Tail(vs))
         IN [h |-> rest.h, cells |-> <<r.cell>> \o rest.cells]

\* the values held by the cells of a list, in order
ListValues(h, lv) == [i \in 1..Len(h.lists[lv.v]) |-> h.cells[h.lists[lv.v][i]]]

InRange(h, c, i) == c.k = "list" /\ i.k = "int" /\ i.v >= 0 /\ i.v < Len(h.lists[c.v])

\* Value::assign: the target Value becomes a value-copy of value's content
Value_assign(l, r) == r

\* Value::index_ref: the element cell at the key, or an Index/Key error
Value_index_ref(h, c, i) ==
    IF InRange(h, c, i) THEN [res |-> "ok", cell |-> h.lists[c.v][i.v + 1]]
    ELSE [res |-> "error", cell |-> 0]

\* Value::index_value: a copy of the element at the key, or an Index/Key error
Value_index_value(h, c, i) ==
    IF InRange(h, c, i) THEN [res |-> "ok", val |-> h.cells[h.lists[c.v][i.v + 1]]]
    ELSE [res |-> "error", val |-> NoneV]

\* Value::test: truthiness
Value_test(h, v) ==
    CASE v.k = "bool" -> v.v = 1
      [] v.k = "int" -> v.v # 0
      [] v.k = "str" -> v.v # 0
      [] v.k = "list" -> Len(h.lists[v.v]) > 0
      [] OTHER -> FALSE

\* Value::__shallow_copy: a new outer container sharing the element cells
Value_shallow_copy(h, v) ==
    IF v.k = "list" THEN LET r == NewList(h, h.lists[v.v]) IN [h |-> r.h, res |-> "ok", val |-> r.val]
    ELSE [h |-> h, res |-> "ok", val |-> v]

\* Value::pop: removes and returns the last element of a list
Value_pop(h, v) ==
    IF v.k = "list" /\ Len(h.lists[v.v]) > 0
    THEN LET cs == h.lists[v.v]
         IN [h |-> [h EXCEPT !.lists[v.v] = SubSeq(cs, 1, Len(cs) - 1)],
             res |-> "ok", val |-> h.cells[cs[Len(cs)]]]
    ELSE [h |-> h, res |-> "error", val |-> NoneV]

\* Value::__len
Value_len(h, v) ==
    IF v.k = "list" THEN [h |-> h, res |-> "ok", val |-> IntV(Len(h.lists[v.v]))]
    ELSE [h |-> h, res |-> "error", val |-> NoneV]

\* Value::reverse: reverses a list in place
Value_reverse(h, v) ==
    IF v.k = "list"
    THEN LET cs == h.lists[v.v]
         IN [h |-> [h EXCEPT !.lists[v.v] = [i \in 1..Len(cs) |-> cs[Len(cs) + 1 - i]]], res |-> "ok"]
    ELSE [h |-> h, res |-> "error"]

\* Value::append: pushes a fresh cell holding a copy of x
Value_append(h, v, x) ==
    IF v.k = "list"
    THEN LET r == NewCell(h, x)
         IN [h |-> [r.h EXCEPT !.lists[v.v] = Append(@, r.cell)], res |-> "ok"]
    ELSE [h |-> h, res |-> "error"]

\* the one-operand Value operations map_1_1 dispatches to
Value_op1(name, h, v) ==
    CASE name = "__shallow_copy" -> Value_shallow_copy(h, v)
      [] name = "pop" -> Value_pop(h, v)
      [] name = "__len" -> Value_len(h, v)
      [] name = "__unary_sub" ->
            IF v.k = "int" THEN [h |-> h, res |-> "ok", val |-> IntV(0 - v.v)]
            ELSE [h |-> h, res |-> "error", val |-> NoneV]
      [] name = "__unary_add" ->
            IF v.k = "int" THEN [h |-> h, res |-> "ok", val |-> v]
            ELSE [h |-> h, res |-> "error", val |-> NoneV]
      [] OTHER -> [h |-> h, res |-> "error", val |-> NoneV]

\* the two-operand Value operations map_2_1 dispatches to (integers only)
Value_op2(name, l, r) ==
    IF l.k = "int" /\ r.k = "int"
    THEN CASE name = "__add" -> [res |-> "ok", val |-> IntV(l.v + r.v)]
           [] name = "__sub" -> [res |-> "ok", val |-> IntV(l.v - r.v)]
           [] name = "__mul" -> [res |-> "ok", val |-> IntV(l.v * r.v)]
           [] name = "__rem" -> IF r.v = 0 THEN [res |-> "error", val |-> NoneV]
                                ELSE [res |-> "ok", val |-> IntV(l.v % r.v)]
           [] name = "__floor_div" -> IF r.v = 0 THEN [res |-> "error", val |-> NoneV]
                                      ELSE [res |-> "ok", val |-> IntV(l.v \div r.v)]
           [] name = "__gt" -> [res |-> "ok", val |-> BoolV(l.v > r.v)]
           [] name = "__ge" -> [res |-> "ok", val |-> BoolV(l.v >= r.v)]
           [] name = "__lt" -> [res |-> "ok", val |-> BoolV(l.v < r.v)]
           [] name = "__le" -> [res |-> "ok", val |-> BoolV(l.v <= r.v)]
           [] name = "__eq" -> [res |-> "ok", val |-> BoolV(l.v = r.v)]
           [] name = "__ne" -> [res |-> "ok", val |-> BoolV(l.v # r.v)]
           [] OTHER -> [res |-> "error", val |-> NoneV]
    ELSE CASE name = "__eq" -> [res |-> "ok", val |-> BoolV(l = r)]
           [] name = "__ne" -> [res |-> "ok", val |-> BoolV(l # r)]
           [] OTHER -> [res |-> "error", val |-> NoneV]

(***************************************************************************)
(* UnsafeRefCell (optpy-std/src/cell.rs is not part of the sources at      *)
(* hand).  A runtime operation takes its borrows in the order object.rs    *)
(* writes them; two borrows of one cell overlap when one is mutable.       *)
(***************************************************************************)
borrow(c) == [cell |-> c, mut |-> FALSE]
borrow_mut(c) == [cell |-> c, mut |-> TRUE]

\* the borrows of one operation overlap: the cell fails fast
Overlap(bs) ==
    \E i, j \in 1..Len(bs) : i # j /\ bs[i].cell = bs[j].cell /\ (bs[i].mut \/ bs[j].mut)

(***************************************************************************)
(* Object and ObjectRef (optpy-std/src/object.rs).                         *)
(***************************************************************************)
Ref(c) == [t |-> "Ref", cell |-> c, val |-> NoneV]
Transient(v) == [t |-> "Value", cell |-> 0, val |-> v]

\* Object::none
Object_none == Transient(NoneV)

\* the Value an Object holds, through r.borrow() for a Ref
Content(h, obj) == IF obj.t = "Ref" THEN h.cells[obj.cell] ELSE obj.val

\* Object::assign copying the value out before it borrows the target
Object_assign_copy_first(h, self, value) ==
    IF self.t = "Ref"
    THEN [h |-> SetCell(h, self.cell, Value_assign(h.cells[self.cell], Content(h, value))),
          self |-> self, res |-> "ok"]
    ELSE [h |-> h, self |-> Transient(Value_assign(self.val, Content(h, value))), res |-> "ok"]

\* Object::assign
Object_assign(h, self, value) ==
    CASE self.t = "Ref" /\ value.t = "Ref" ->
            IF Overlap(<<borrow_mut(self.cell), borrow(value.cell)>>)
            THEN [h |-> h, self |-> self, res |-> "borrow"]
            ELSE [h |-> SetCell(h, self.cell, Value_assign(h.cells[self.cell], h.cells[value.cell])),
                  self |-> self, res |-> "ok"]
      [] self.t = "Ref" /\ value.t = "Value" ->
            [h |-> SetCell(h, self.cell, Value_assign(h.cells[self.cell], value.val)),
             self |-> self, res |-> "ok"]
      [] self.t = "Value" /\ value.t = "Ref" ->
            [h |-> h, self |-> Transient(Value_assign(self.val, h.cells[value.cell])), res |-> "ok"]
      [] OTHER ->
            [h |-> h, self |-> Transient(Value_assign(self.val, value.val)), res |-> "ok"]

\* Object::index_ref: an ObjectRef into the container's storage
Object_index_ref(h, self, index) == Value_index_ref(h, Content(h, self), Content(h, index))

\* Object::index_value handing out the element's cell instead of a copy
Object_index_value_alias(h, self, index) ==
    LET r == Value_index_ref(h, Content(h, self), Content(h, index))
    IN [res |-> r.res, val |-> IF r.res = "ok" THEN Ref(r.cell) ELSE Object_none]

\* Object::index_value: an Object::Value holding a copy of the element
Object_index_value(h, self, index) ==
    LET r == Value_index_value(h, Content(h, self), Content(h, index))
    IN [res |-> r.res, val |-> Transient(r.val)]

\* Object::test
Object_test(h, self) == Value_test(h, Content(h, self))

\* ObjectRef::assign
ObjectRef_assign(h, cell, value) ==
    IF value.t = "Ref" THEN [h |-> h, res |-> "todo"]
    ELSE [h |-> SetCell(h, cell, Value_assign(h.cells[cell], value.val)), res |-> "ok"]

\* ObjectRef::index_ref
ObjectRef_index_ref(h, cell, index) ==
    IF index.t = "Ref" THEN [res |-> "todo", cell |-> 0]
    ELSE Value_index_ref(h, h.cells[cell], index.val)

\* map_1_0: sort, reverse
map_1_0(h, obj, name) ==
    IF name = "reverse" THEN Value_reverse(h, Content(h, obj)) ELSE [h |-> h, res |-> "error"]

\* map_1_1: __shallow_copy, pop, __len, ...; the result is an Object::Value
map_1_1(h, obj, name) ==
    LET r == Value_op1(name, h, Content(h, obj))
    IN [h |-> r.h, res |-> r.res, val |-> Transient(r.val)]

\* map_2_1: the binary and compare operations; the result is an Object::Value
map_2_1(h, obj1, obj2, name) ==
    LET r == Value_op2(name, Content(h, obj1), Content(h, obj2))
    IN [h |-> h, res |-> r.res, val |-> Transient(r.val)]

\* map_2_0: append, add, __delete
map_2_0(h, obj1, obj2, name) ==
    IF name = "append" THEN Value_append(h, Content(h, obj1), Content(h, obj2))
    ELSE [h |-> h, res |-> "error"]

\* From<&Object> for Object
Object_from_ref(h, obj) == map_1_1(h, obj, "__shallow_copy")

\* From<Vec<Object>> for Object: one fresh cell per element, then the list
Object_from_vec(h, list) ==
    LET cs == NewCells(h, [i \in 1..Len(list) |-> Content(h, list[i])])
        l == NewList(cs.h, cs.cells)
    IN [h |-> l.h, res |-> "ok", val |-> Transient(l.val)]

(***************************************************************************)
(* The syntax tree Statement::parse consumes (rustpython_parser::ast).     *)
(* Optional parts are sequences of length 0 or 1.                          *)
(***************************************************************************)
RId(name) == [node |-> "Identifier", name |-> name]
RNum(n) == [node |-> "Number", n |-> n]
RStr(c) == [node |-> "String", c |-> c]
RTrue == [node |-> "True"]
RFalse == [node |-> "False"]
RTuple(es) == [node |-> "Tuple", elements |-> es]
RList(es) == [node |-> "List", elements |-> es]
RSub(a, b) == [node |-> "Subscript", a |-> a, b |-> b]
RCall(name, args) == [node |-> "Call", function |-> RId(name), args |-> args]
RMethod(value, name, args) ==
    [node |-> "Call", function |-> [node |-> "Attribute", value |-> value, name |-> name], args |-> args]
RBin(a, op, b) == [node |-> "Binop", a |-> a, op |-> op, b |-> b]
RCmp(a, op, b) == [node |-> "Compare", vals |-> <<a, b>>, ops |-> <<op>>]
RBool(op, values) == [node |-> "BoolOp", op |-> op, values |-> values]
RLambda == [node |-> "Lambda"]

SAssign(target, value) == [node |-> "Assign", targets |-> <<target>>, value |-> value]
SChain(targets, value) == [node |-> "Assign", targets |-> targets, value |-> value]
SExpr(e) == [node |-> "Expression", expression |-> e]
SIf(test, body, orelse) == [node |-> "If", test |-> test, body |-> body, orelse |-> orelse]
SDef(name, args, body) ==
    [node |-> "FunctionDef", is_async |-> FALSE, decorator_list |-> <<>>, returns |-> <<>>,
     name |-> name, args |-> args, body |-> body]
SRet(value) == [node |-> "Return", value |-> value]
SWhile(test, body) == [node |-> "While", test |-> test, body |-> body, orelse |-> <<>>]
SFor(target, iter, row, col, body) ==
    [node |-> "For", is_async |-> FALSE, target |-> target, iter |-> iter,
     row |-> row, col |-> col, body |-> body, orelse |-> <<>>]
SBreak == [node |-> "Break"]
SAug(target, op, value) == [node |-> "AugAssign", target |-> target, op |-> op, value |-> value]
SPass == [node |-> "Pass"]

(***************************************************************************)
(* The IR: Statement (statement.rs) and Expr.                              *)
(***************************************************************************)
VariableName(name) == [x |-> "VariableName", name |-> name]
ConstantNumber(n) == [x |-> "ConstantNumber", n |-> n]
Index(value, index) == [x |-> "Index", value |-> value, index |-> index]
CallFunction(name, args) == [x |-> "CallFunction", name |-> name, args |-> args]
CallMethod(value, name, args) == [x |-> "CallMethod", value |-> value, name |-> name, args |-> args]
BinaryOperation(left, right, op) == [x |-> "BinaryOperation", left |-> left, right |-> right, op |-> op]
Compare(left, right, op) == [x |-> "Compare", left |-> left, right |-> right, op |-> op]
BoolOperation(op, conditions) == [x |-> "BoolOperation", op |-> op, conditions |-> conditions]
ExprPanic == [x |-> "PANIC"]

Assign(target, value) == [s |-> "Assign", target |-> target, value |-> value]
Expression(expr) == [s |-> "Expression", expr |-> expr]
If(test, body, orelse) == [s |-> "If", test |-> test, body |-> body, orelse |-> orelse]
Func(name, args, body) == [s |-> "Func", name |-> name, args |-> args, body |-> body]
Return(value) == [s |-> "Return", value |-> value]
While(test, body) == [s |-> "While", test |-> test, body |-> body]
Break == [s |-> "Break"]
StatementPanic == [s |-> "PANIC"]

\* BinaryOperator::parse (its code is not part of the sources at hand): the
\* operator of the syntax tree as the IR's operator
BinaryOperator_parse(op) ==
    CASE op = "Mult" -> "Mul"
      [] op = "Mod" -> "Mod"
      [] op = "FloorDiv" -> "FloorDiv"
      [] op = "Div" -> "Div"
      [] op = "Sub" -> "Sub"
      [] OTHER -> "Add"

RECURSIVE Expr_parse(_)
\* Expr::parse (expression.rs is not part of the sources at hand)
Expr_parse(e) ==
    CASE e.node = "Identifier" -> VariableName(e.name)
      [] e.node = "Number" -> ConstantNumber(e.n)
      [] e.node = "String" -> [x |-> "ConstantString", c |-> e.c]
      [] e.node = "True" -> [x |-> "ConstantBoolean", b |-> TRUE]
      [] e.node = "False" -> [x |-> "ConstantBoolean", b |-> FALSE]
      [] e.node = "Tuple" -> [x |-> "Tuple", items |-> [i \in 1..Len(e.elements) |-> Expr_parse(e.elements[i])]]
      [] e.node = "List" -> [x |-> "List", items |-> [i \in 1..Len(e.elements) |-> Expr_parse(e.elements[i])]]
      [] e.node = "Subscript" -> Index(Expr_parse(e.a), Expr_parse(e.b))
      [] e.node = "Call" ->
            LET args == [i \in 1..Len(e.args) |-> Expr_parse(e.args[i])]
            IN CASE e.function.node = "Identifier" -> CallFunction(e.function.name, args)
                 [] e.function.node = "Attribute" ->
                        CallMethod(Expr_parse(e.function.value), e.function.name, args)
                 [] OTHER -> ExprPanic
      [] e.node = "Binop" -> BinaryOperation(Expr_parse(e.a), Expr_parse(e.b), BinaryOperator_parse(e.op))
      [] e.node = "Compare" ->
            IF Len(e.ops) = 1 THEN Compare(Expr_parse(e.vals[1]), Expr_parse(e.vals[2]), e.ops[1])
            ELSE BoolOperation("And",
                    [i \in 1..Len(e.ops) |-> Compare(Expr_parse(e.vals[i]), Expr_parse(e.vals[i + 1]), e.ops[i])])
      [] e.node = "BoolOp" ->
            BoolOperation(e.op, [i \in 1..Len(e.values) |-> Expr_parse(e.values[i])])
      [] OTHER -> ExprPanic

\* parse_assignment indexing the assigned expression itself, not the temporary
parse_assignment_reevaluating(target, value) ==
    IF target.node = "Tuple"
    THEN LET tmp_target == VariableName("__tmp_for_tuple")
         IN <<Assign(tmp_target, value)>>
            \o [i \in 1..Len(target.elements) |->
                   Assign(Expr_parse(target.elements[i]), Index(value, ConstantNumber(i - 1)))]
    ELSE <<Assign(Expr_parse(target), value)>>

\* parse_assignment
parse_assignment(target, value) ==
    IF target.node = "Tuple"
    THEN LET tmp_target == VariableName("__tmp_for_tuple")
         IN <<Assign(tmp_target, value)>>
            \o [i \in 1..Len(target.elements) |->
                   Assign(Expr_parse(target.elements[i]), Index(tmp_target, ConstantNumber(i - 1)))]
    ELSE <<Assign(Expr_parse(target), value)>>

\* the lowering of a for loop with its reverse() statement left out
for_statements_unreversed(tmp_variable, iter, while_body) ==
    << Assign(tmp_variable, CallFunction("list", <<iter>>)),
       While(BoolOperation("And",
                 <<Compare(CallFunction("len", <<tmp_variable>>), ConstantNumber(0), "Greater")>>),
             while_body) >>

\* the vec! of Statement::parse for a For: tmp = list(iter); tmp.reverse();
\* while len(tmp) > 0: <while_body>
for_statements(tmp_variable, iter, while_body) ==
    << Assign(tmp_variable, CallFunction("list", <<iter>>)),
       Expression(CallMethod(tmp_variable, "reverse", <<>>)),
       While(BoolOperation("And",
                 <<Compare(CallFunction("len", <<tmp_variable>>), ConstantNumber(0), "Greater")>>),
             while_body) >>

\* the lowering of an augmented assignment with its operands exchanged
aug_statements_swapped(target, value, op) ==
    <<Assign(target, BinaryOperation(value, target, BinaryOperator_parse(op)))>>

\* the vec! of Statement::parse for an AugAssign: target = target op value
aug_statements(target, value, op) ==
    <<Assign(target, BinaryOperation(target, value, BinaryOperator_parse(op)))>>

\* the temporary of a for loop named without the position of its iterable
TmpForName_shared(row, col) == "__tmp_variable_for_for_loop_"

\* format!("__tmp_variable_for_for_loop_{}_{}", row, column)
TmpForName(row, col) == "__tmp_variable_for_for_loop_" \o ToString(row) \o "_" \o ToString(col)

RECURSIVE Statement_parse(_), parse_statements(_)
\* Statement::parse
Statement_parse(st) ==
    CASE st.node = "Assign" ->
            IF Len(st.targets) # 1 THEN <<StatementPanic>>
            ELSE parse_assignment(st.targets[1], Expr_parse(st.value))
      [] st.node = "Expression" -> <<Expression(Expr_parse(st.expression))>>
      [] st.node = "If" ->
            <<If(Expr_parse(st.test), parse_statements(st.body), parse_statements(st.orelse))>>
      [] st.node = "FunctionDef" -> <<Func(st.name, st.args, parse_statements(st.body))>>
      [] st.node = "Return" ->
            <<Return([i \in 1..Len(st.value) |-> Expr_parse(st.value[i])])>>
      [] st.node = "While" -> <<While(Expr_parse(st.test), parse_statements(st.body))>>
      [] st.node = "For" ->
            LET tmp_variable == VariableName(TmpForName(st.row, st.col))
                iter == Expr_parse(st.iter)
                while_body == parse_assignment(st.target, CallMethod(tmp_variable, "pop", <<>>))
                              \o parse_statements(st.body)
            IN for_statements(tmp_variable, iter, while_body)
      [] st.node = "Break" -> <<Break>>
      [] st.node = "AugAssign" ->
            LET target == Expr_parse(st.target)
                value == Expr_parse(st.value)
            IN aug_statements(target, value, st.op)
      [] OTHER -> <<StatementPanic>>

\* parse_statements: flat_map of Statement::parse
parse_statements(statements) ==
    IF statements = <<>> THEN <<>>
    ELSE Statement_parse(Head(statements)) \o parse_statements(Tail(statements))

RECURSIVE ExprPanics(_)
\* a panic (todo!, unimplemented!) was hit while building this expression
ExprPanics(e) ==
    CASE e.x = "PANIC" -> TRUE
      [] e.x \in {"Tuple", "List"} -> \E i \in 1..Len(e.items) : ExprPanics(e.items[i])
      [] e.x = "Index" -> ExprPanics(e.value) \/ ExprPanics(e.index)
      [] e.x = "CallFunction" -> \E i \in 1..Len(e.args) : ExprPanics(e.args[i])
      [] e.x = "CallMethod" -> ExprPanics(e.value) \/ \E i \in 1..Len(e.args) : ExprPanics(e.args[i])
      [] e.x \in {"BinaryOperation", "Compare"} -> ExprPanics(e.left) \/ ExprPanics(e.right)
      [] e.x = "BoolOperation" -> \E i \in 1..Len(e.conditions) : ExprPanics(e.conditions[i])
      [] e.x = "UnaryOperation" -> ExprPanics(e.value)
      [] OTHER -> FALSE

RECURSIVE StatementPanics(_)
\* a panic (assert_eq!, todo!) was hit while lowering to these statements
StatementPanics(stmts) ==
    \E i \in 1..Len(stmts) :
        LET st == stmts[i]
        IN CASE st.s = "PANIC" -> TRUE
             [] st.s = "Assign" -> ExprPanics(st.target) \/ ExprPanics(st.value)
             [] st.s = "Expression" -> ExprPanics(st.expr)
             [] st.s = "If" -> ExprPanics(st.test) \/ StatementPanics(st.body) \/ StatementPanics(st.orelse)
             [] st.s = "Func" -> StatementPanics(st.body)
             [] st.s = "Return" -> \E j \in 1..Len(st.value) : ExprPanics(st.value[j])
             [] st.s = "While" -> ExprPanics(st.test) \/ StatementPanics(st.body)
             [] OTHER -> FALSE

(***************************************************************************)
(* The definition analysis (its code is not part of the sources at hand):  *)
(* per scope, the names that are the target of an Assign in that scope.    *)
(***************************************************************************)
RECURSIVE CollectNames(_)
CollectNames(stmts) ==
    UNION { LET st == stmts[i]
            IN CASE st.s = "Assign" -> IF st.target.x = "VariableName" THEN {st.target.name} ELSE {}
                 [] st.s = "If" -> CollectNames(st.body) \cup CollectNames(st.orelse)
                 [] st.s = "While" -> CollectNames(st.body)
                 [] OTHER -> {}
            : i \in 1..Len(stmts) }

RECURSIVE CollectFuncs(_)
CollectFuncs(stmts) ==
    UNION { LET st == stmts[i]
            IN CASE st.s = "Func" -> {st} \cup CollectFuncs(st.body)
                 [] st.s = "If" -> CollectFuncs(st.body) \cup CollectFuncs(st.orelse)
                 [] st.s = "While" -> CollectFuncs(st.body)
                 [] OTHER -> {}
            : i \in 1..Len(stmts) }

\* scope name -> set of names; "" is the top level
CollectDefinitions(stmts) ==
    LET funcs == CollectFuncs(stmts)
    IN [name \in {""} \cup {f.name : f \in funcs} |->
           IF name = "" THEN CollectNames(stmts)
           ELSE UNION {CollectNames(f.body) : f \in {g \in funcs : g.name = name}}]

(***************************************************************************)
(* Byte order of identifiers, the order a BTreeSet<String> iterates in.    *)
(***************************************************************************)
Alphabet == "0123456789ABCDEFGHIJKLMNOPQRSTUVWXYZ_abcdefghijklmnopqrstuvwxyz"

CharRank(c) == CHOOSE i \in 1..Len(Alphabet) : SubSeq(Alphabet, i, i) = c

RECURSIVE StrLess(_, _)
StrLess(a, b) ==
    CASE Len(b) = 0 -> FALSE
      [] Len(a) = 0 -> TRUE
      [] CharRank(SubSeq(a, 1, 1)) # CharRank(SubSeq(b, 1, 1)) ->
            CharRank(SubSeq(a, 1, 1)) < CharRank(SubSeq(b, 1, 1))
      [] OTHER -> StrLess(SubSeq(a, 2, Len(a)), SubSeq(b, 2, Len(b)))

RECURSIVE BTreeSetIter(_)
\* the elements of a set of names in ascending order
BTreeSetIter(S) ==
    IF S = {} THEN <<>>
    ELSE LET m == CHOOSE a \in S : \A b \in S \ {a} : StrLess(a, b)
         IN <<m>> \o BTreeSetIter(S \ {m})

\* name.strip_suffix("__macro__"): <<>> for None, <<stem>> for Some(stem)
strip_suffix(name, suffix) ==
    IF Len(name) >= Len(suffix) /\ SubSeq(name, Len(name) - Len(suffix) + 1, Len(name)) = suffix
    THEN <<SubSeq(name, 1, Len(name) - Len(suffix))>>
    ELSE <<>>

(***************************************************************************)
(* The generator (optpy-generator/src/lib.rs).  The emitted Rust is kept   *)
(* as a tree: one node per quote! template.                                *)
(***************************************************************************)
RVar(name) == [r |-> "var", name |-> name]
RNone == [r |-> "none"]
RMethodCall(recv, name, args) == [r |-> "method", recv |-> recv, name |-> name, args |-> args]
RLet(name, init) == [r |-> "let", name |-> name, init |-> init]
RPanic == [r |-> "PANIC"]

\* format_boolean_operation emitting the operators that evaluate both sides
format_boolean_operation_eager(op) == IF op = "And" THEN "&" ELSE "|"

\* format_boolean_operation
format_boolean_operation(op) == IF op = "And" THEN "&&" ELSE "||"

\* format_compare_ident
format_compare_ident(op) ==
    CASE op = "Less" -> "__lt"
      [] op = "LessOrEqual" -> "__le"
      [] op = "Greater" -> "__gt"
      [] op = "GreaterOrEqual" -> "__ge"
      [] op = "Equal" -> "__eq"
      [] op = "NotEqual" -> "__ne"

\* format_binary_ident
format_binary_ident(op) ==
    CASE op = "Add" -> "__add"
      [] op = "Sub" -> "__sub"
      [] op = "Mul" -> "__mul"
      [] op = "Div" -> "__div"
      [] op = "Mod" -> "__rem"
      [] op = "FloorDiv" -> "__floor_div"

\* format_unary_ident
format_unary_ident(op) == IF op = "Add" THEN "__unary_add" ELSE "__unary_sub"

RECURSIVE format_expr(_)
\* format_exprs
format_exprs(exprs) == [i \in 1..Len(exprs) |-> format_expr(exprs[i])]

\* format_expr
format_expr(expr) ==
    CASE expr.x = "CallFunction" ->
            LET args == format_exprs(expr.args)
                macro_name == strip_suffix(expr.name, "__macro__")
            IN IF macro_name # <<>>
               THEN [r |-> "macro", name |-> macro_name[1], args |-> args]
               ELSE [r |-> "call", name |-> expr.name, args |-> args]
      [] expr.x = "CallMethod" -> RMethodCall(format_expr(expr.value), expr.name, format_exprs(expr.args))
      [] expr.x = "Tuple" -> [r |-> "from_slice", items |-> format_exprs(expr.items)]
      [] expr.x = "VariableName" -> RVar(expr.name)
      [] expr.x = "BoolOperation" ->
            [r |-> "from_tests", op |-> format_boolean_operation(expr.op),
             conditions |-> format_exprs(expr.conditions)]
      [] expr.x = "Compare" ->
            RMethodCall(format_expr(expr.left), format_compare_ident(expr.op), <<format_expr(expr.right)>>)
      [] expr.x = "BinaryOperation" ->
            RMethodCall(format_expr(expr.left), format_binary_ident(expr.op), <<format_expr(expr.right)>>)
      [] expr.x = "ConstantNumber" -> [r |-> "from_int", n |-> expr.n]
      [] expr.x = "Index" -> RMethodCall(format_expr(expr.value), "index", <<format_expr(expr.index)>>)
      [] expr.x = "List" -> [r |-> "from_vec", items |-> format_exprs(expr.items)]
      [] expr.x = "ConstantString" -> [r |-> "from_str", c |-> expr.c]
      [] expr.x = "ConstantBoolean" -> [r |-> "from_bool", b |-> expr.b]
      [] expr.x = "UnaryOperation" -> RMethodCall(format_expr(expr.value), format_unary_ident(expr.op), <<>>)
      [] OTHER -> RPanic

RECURSIVE format_statement(_, _), generate_function_body(_, _, _)
\* generate_function_body appending the declarations after the statements
generate_function_body_late(body, function_name, defs) ==
    LET declared == IF function_name \in DOMAIN defs THEN BTreeSetIter(defs[function_name]) ELSE <<>>
    IN [i \in 1..Len(body) |-> format_statement(body[i], defs)]
       \o [i \in 1..Len(declared) |-> RLet(declared[i], RNone)]

\* generate_function_body
generate_function_body(body, function_name, defs) ==
    LET declared == IF function_name \in DOMAIN defs THEN BTreeSetIter(defs[function_name]) ELSE <<>>
    IN [i \in 1..Len(declared) |-> RLet(declared[i], RNone)]
       \o [i \in 1..Len(body) |-> format_statement(body[i], defs)]

\* format_statement emitting a fn without the copies of its parameters
format_statement_uncopied(statement, defs) ==
    CASE statement.s = "Assign" ->
            [r |-> "assign", target |-> format_expr(statement.target), value |-> format_expr(statement.value)]
      [] statement.s = "Expression" -> [r |-> "expr", e |-> format_expr(statement.expr)]
      [] statement.s = "If" ->
            [r |-> "if", test |-> format_expr(statement.test),
             body |-> [i \in 1..Len(statement.body) |-> format_statement(statement.body[i], defs)],
             orelse |-> [i \in 1..Len(statement.orelse) |-> format_statement(statement.orelse[i], defs)]]
      [] statement.s = "Func" ->
            [r |-> "fn", name |-> statement.name, args |-> statement.args,
             body |-> generate_function_body(statement.body, statement.name, defs)
                      \o <<[r |-> "return", value |-> RNone]>>]
      [] statement.s = "Return" ->
            IF Len(statement.value) = 1
            THEN [r |-> "return", value |-> [r |-> "from", e |-> format_expr(statement.value[1])]]
            ELSE [r |-> "return", value |-> RNone]
      [] statement.s = "While" ->
            [r |-> "while", test |-> format_expr(statement.test),
             body |-> [i \in 1..Len(statement.body) |-> format_statement(statement.body[i], defs)]]
      [] statement.s = "Break" -> [r |-> "break"]
      [] OTHER -> RPanic

\* format_statement
format_statement(statement, defs) ==
    CASE statement.s = "Assign" ->
            [r |-> "assign", target |-> format_expr(statement.target), value |-> format_expr(statement.value)]
      [] statement.s = "Expression" -> [r |-> "expr", e |-> format_expr(statement.expr)]
      [] statement.s = "If" ->
            [r |-> "if", test |-> format_expr(statement.test),
             body |-> [i \in 1..Len(statement.body) |-> format_statement(statement.body[i], defs)],
             orelse |-> [i \in 1..Len(statement.orelse) |-> format_statement(statement.orelse[i], defs)]]
      [] statement.s = "Func" ->
            [r |-> "fn", name |-> statement.name, args |-> statement.args,
             body |-> [i \in 1..Len(statement.args) |->
                          RLet(statement.args[i], RMethodCall(RVar(statement.args[i]), "__shallow_copy", <<>>))]
                      \o generate_function_body(statement.body, statement.name, defs)
                      \o <<[r |-> "return", value |-> RNone]>>]
      [] statement.s = "Return" ->
            IF Len(statement.value) = 1
            THEN [r |-> "return", value |-> [r |-> "from", e |-> format_expr(statement.value[1])]]
            ELSE [r |-> "return", value |-> RNone]
      [] statement.s = "While" ->
            [r |-> "while", test |-> format_expr(statement.test),
             body |-> [i \in 1..Len(statement.body) |-> format_statement(statement.body[i], defs)]]
      [] statement.s = "Break" -> [r |-> "break"]
      [] OTHER -> RPanic

\* generate_code
generate_code(statements, defs) ==
    [r |-> "fn", name |-> "main", args |-> <<>>, body |-> generate_function_body(statements, "", defs)]

RECURSIVE RExprPanics(_)
\* unimplemented! was hit while emitting this expression
RExprPanics(e) ==
    CASE e.r = "PANIC" -> TRUE
      [] e.r \in {"call", "macro"} -> \E i \in 1..Len(e.args) : RExprPanics(e.args[i])
      [] e.r = "method" -> RExprPanics(e.recv) \/ \E i \in 1..Len(e.args) : RExprPanics(e.args[i])
      [] e.r \in {"from_slice", "from_vec"} -> \E i \in 1..Len(e.items) : RExprPanics(e.items[i])
      [] e.r = "from_tests" -> \E i \in 1..Len(e.conditions) : RExprPanics(e.conditions[i])
      [] e.r = "from" -> RExprPanics(e.e)
      [] OTHER -> FALSE

RECURSIVE RStatementPanics(_)
\* unreachable! or unimplemented! was hit while emitting these statements
RStatementPanics(stmts) ==
    \E i \in 1..Len(stmts) :
        LET st == stmts[i]
        IN CASE st.r = "PANIC" -> TRUE
             [] st.r = "let" -> RExprPanics(st.init)
             [] st.r = "assign" -> RExprPanics(st.target) \/ RExprPanics(st.value)
             [] st.r = "expr" -> RExprPanics(st.e)
             [] st.r = "if" -> RExprPanics(st.test) \/ RStatementPanics(st.body) \/ RStatementPanics(st.orelse)
             [] st.r = "fn" -> RStatementPanics(st.body)
             [] st.r = "return" -> RExprPanics(st.value)
             [] st.r = "while" -> RExprPanics(st.test) \/ RStatementPanics(st.body)
             [] OTHER -> FALSE

(***************************************************************************)
(* Running the emitted Rust.  m = [h, out, res, fuel] is the machine: the  *)
(* heap, the printed lines, "ok" or why the program stopped, and the loop  *)
(* iterations and calls it may still make.  An environment maps the names  *)
(* declared by let (and the parameters) to Objects.                        *)
(***************************************************************************)
Fail(m, why) == [m EXCEPT !.res = why]

Bind(en, name, obj) == [n \in DOMAIN en \cup {name} |-> IF n = name THEN obj ELSE en[n]]

RECURSIVE CollectFns(_)
\* the fn items of the emitted code
CollectFns(stmts) ==
    UNION { LET st == stmts[i]
            IN CASE st.r = "fn" -> {st} \cup CollectFns(st.body)
                 [] st.r = "if" -> CollectFns(st.body) \cup CollectFns(st.orelse)
                 [] st.r = "while" -> CollectFns(st.body)
                 [] OTHER -> {}
            : i \in 1..Len(stmts) }

\* the built-ins of the runtime library (their code is not part of the sources at hand)
Builtin(name, m, args) ==
    CASE name = "print" ->
            [m |-> [m EXCEPT !.out = Append(@, [i \in 1..Len(args) |-> Content(m.h, args[i])])],
             val |-> Object_none]
      [] name = "len" /\ Len(args) = 1 ->
            LET r == map_1_1(m.h, args[1], "__len")
            IN [m |-> [m EXCEPT !.res = r.res], val |-> r.val]
      [] name = "list" /\ Len(args) = 1 /\ Content(m.h, args[1]).k = "list" ->
            LET cs == NewCells(m.h, ListValues(m.h, Content(m.h, args[1])))
                l == NewList(cs.h, cs.cells)
            IN [m |-> [m EXCEPT !.h = l.h], val |-> Transient(l.val)]
      [] name = "range" /\ Len(args) = 1 /\ Content(m.h, args[1]).k = "int" ->
            LET n == Content(m.h, args[1]).v
                cs == NewCells(m.h, [i \in 1..n |-> IntV(i - 1)])
                l == NewList(cs.h, cs.cells)
            IN [m |-> [m EXCEPT !.h = l.h], val |-> Transient(l.val)]
      [] OTHER -> [m |-> Fail(m, "error"), val |-> Object_none]

Op1Names == {"__shallow_copy", "pop", "__len", "__unary_add", "__unary_sub"}
Op2Names == {"__add", "__sub", "__mul", "__rem", "__floor_div",
             "__gt", "__ge", "__lt", "__le", "__eq", "__ne"}

\* recv.name(&args..) on Objects, in a read position
Method(name, m, recv, args) ==
    CASE name = "index" /\ Len(args) = 1 ->
            LET r == Object_index_value(m.h, recv, args[1])
            IN [m |-> [m EXCEPT !.res = r.res], val |-> r.val]
      [] name \in Op1Names /\ Len(args) = 0 ->
            LET r == map_1_1(m.h, recv, name)
            IN [m |-> [m EXCEPT !.h = r.h, !.res = r.res], val |-> r.val]
      [] name \in Op2Names /\ Len(args) = 1 ->
            LET r == map_2_1(m.h, recv, args[1], name)
            IN [m |-> [m EXCEPT !.res = r.res], val |-> r.val]
      [] name = "reverse" /\ Len(args) = 0 ->
            LET r == map_1_0(m.h, recv, name)
            IN [m |-> [m EXCEPT !.h = r.h, !.res = r.res], val |-> Object_none]
      [] name = "append" /\ Len(args) = 1 ->
            LET r == map_2_0(m.h, recv, args[1], name)
            IN [m |-> [m EXCEPT !.h = r.h, !.res = r.res], val |-> Object_none]
      [] OTHER -> [m |-> Fail(m, "error"), val |-> Object_none]

RECURSIVE Eval(_, _, _, _), EvalArgs(_, _, _, _), EvalTests(_, _, _, _, _), EvalPlace(_, _, _, _)
RECURSIVE ExecStmt(_, _, _, _), ExecBlock(_, _, _, _), ExecWhile(_, _, _, _)

Value0(m) == [m |-> m, val |-> Object_none]

Step0(m, en) == [m |-> m, en |-> en, ctl |-> "next", ret |-> Object_none]

\* the operand a, then the operands rest
ArgsCons(a, rest) == [m |-> rest.m, vals |-> <<a.val>> \o rest.vals]

ArgsAfter(a, es, en, fns) == ArgsCons(a, EvalArgs(es, en, a.m, fns))

\* the operands of a call, left to right: [m, vals]
EvalArgs(es, en, m, fns) ==
    IF es = <<>> THEN [m |-> m, vals |-> <<>>]
    ELSE ArgsAfter(Eval(Head(es), en, m, fns), Tail(es), en, fns)

TestsJoin(op, t, rest) ==
    [m |-> rest.m, b |-> IF op \in {"&&", "&"} THEN t /\ rest.b ELSE t \/ rest.b]

\* after the first operand of c1.test() op c2.test() op ..: && and || stop
\* at the first operand that decides
TestsAfter(a, op, conds, en, fns) ==
    CASE a.m.res # "ok" -> [m |-> a.m, b |-> FALSE]
      [] op = "&&" /\ ~Object_test(a.m.h, a.val) -> [m |-> a.m, b |-> FALSE]
      [] op = "||" /\ Object_test(a.m.h, a.val) -> [m |-> a.m, b |-> TRUE]
      [] conds = <<>> -> [m |-> a.m, b |-> Object_test(a.m.h, a.val)]
      [] OTHER -> TestsJoin(op, Object_test(a.m.h, a.val), EvalTests(op, conds, en, a.m, fns))

\* c1.test() op c2.test() op ..: [m, b]
EvalTests(op, conds, en, m, fns) ==
    IF conds = <<>> THEN [m |-> m, b |-> (op \in {"&&", "&"})]
    ELSE TestsAfter(Eval(Head(conds), en, m, fns), op, Tail(conds), en, fns)

FromBool(t) == [m |-> t.m, val |-> Transient(BoolV(t.b))]

FromVec(m, r) == [m |-> [m EXCEPT !.h = r.h], val |-> r.val]

Returned(r) == [m |-> r.m, val |-> r.ret]

\* a call of an emitted fn: the parameters are bound to the caller's Objects
CallUser(f, args, m, fns) ==
    CASE Len(args) # Len(f.args) -> Value0(Fail(m, "rustc"))
      [] m.fuel = 0 -> Value0(Fail(m, "fuel"))
      [] OTHER ->
            Returned(ExecBlock(f.body,
                               [n \in {f.args[i] : i \in 1..Len(f.args)} |->
                                   args[CHOOSE i \in 1..Len(f.args) : f.args[i] = n]],
                               [m EXCEPT !.fuel = @ - 1], fns))

\* the expressions an expression evaluates before it acts, in order
Operands(e) ==
    CASE e.r = "method" -> <<e.recv>> \o e.args
      [] e.r \in {"call", "macro"} -> e.args
      [] e.r = "from_vec" ->
            \* Value::from(vec![Value::from(&item), ..])
            [i \in 1..Len(e.items) |-> RMethodCall(e.items[i], "__shallow_copy", <<>>)]
      [] e.r = "from_slice" -> e.items
      [] e.r = "from" -> <<e.e>>
      [] OTHER -> <<>>

\* an expression, its operands evaluated to a = [m, vals]
Apply(e, a, fns) ==
    CASE a.m.res # "ok" -> Value0(a.m)
      [] e.r = "method" -> Method(e.name, a.m, a.vals[1], Tail(a.vals))
      [] e.r = "call" /\ {f \in fns : f.name = e.name} # {} ->
            CallUser(CHOOSE f \in fns : f.name = e.name, a.vals, a.m, fns)
      [] e.r \in {"call", "macro"} -> Builtin(e.name, a.m, a.vals)
      [] e.r \in {"from_vec", "from_slice"} -> FromVec(a.m, Object_from_vec(a.m.h, a.vals))
      [] e.r = "from" -> [m |-> a.m, val |-> a.vals[1]]
      [] OTHER -> Value0(Fail(a.m, "rustc"))

\* an expression in a read position: [m, val]
Eval(e, en, m, fns) ==
    CASE m.res # "ok" -> Value0(m)
      [] e.r = "var" ->
            IF e.name \in DOMAIN en THEN [m |-> m, val |-> en[e.name]] ELSE Value0(Fail(m, "rustc"))
      [] e.r = "none" -> Value0(m)
      [] e.r = "from_int" -> [m |-> m, val |-> Transient(IntV(e.n))]
      [] e.r = "from_str" -> [m |-> m, val |-> Transient(StrV(e.c))]
      [] e.r = "from_bool" -> [m |-> m, val |-> Transient(BoolV(e.b))]
      [] e.r = "from_tests" -> FromBool(EvalTests(e.op, e.conditions, en, m, fns))
      [] OTHER -> Apply(e, EvalArgs(Operands(e), en, m, fns), fns)

Place(m, kind, name, cell, obj) == [m |-> m, kind |-> kind, name |-> name, cell |-> cell, obj |-> obj]

PlaceOfIndex(m, r) == Place([m EXCEPT !.res = r.res], "cell", "", r.cell, Object_none)

\* the ObjectRef of recv.index(&idx), recv being a place
IndexPlace(recv, idx) ==
    CASE idx.m.res # "ok" -> Place(idx.m, "temp", "", 0, Object_none)
      [] recv.kind = "cell" -> PlaceOfIndex(idx.m, ObjectRef_index_ref(idx.m.h, recv.cell, idx.val))
      [] OTHER -> PlaceOfIndex(idx.m, Object_index_ref(idx.m.h, recv.obj, idx.val))

IndexAfter(recv, index, en, fns) == IndexPlace(recv, Eval(index, en, recv.m, fns))

TempPlace(v) == Place(v.m, "temp", "", 0, v.val)

\* the receiver of .assign(..): a local variable, the ObjectRef of an index
\* expression, or a temporary: [m, kind, name, cell, obj]
EvalPlace(e, en, m, fns) ==
    CASE m.res # "ok" -> Place(m, "temp", "", 0, Object_none)
      [] e.r = "var" ->
            IF e.name \in DOMAIN en THEN Place(m, "var", e.name, 0, en[e.name])
            ELSE Place(Fail(m, "rustc"), "temp", "", 0, Object_none)
      [] e.r = "method" /\ e.name = "index" /\ Len(e.args) = 1 ->
            IndexAfter(EvalPlace(e.recv, en, m, fns), e.args[1], en, fns)
      [] OTHER -> TempPlace(Eval(e, en, m, fns))

StoreCell(m, r, en) == Step0([m EXCEPT !.h = r.h, !.res = r.res], en)

StoreObject(m, r, p, en) ==
    Step0([m EXCEPT !.h = r.h, !.res = r.res],
          IF p.kind = "var" /\ r.res = "ok" THEN Bind(en, p.name, r.self) ELSE en)

\* p.assign(&v)
Store(p, v, en) ==
    CASE v.m.res # "ok" -> Step0(v.m, en)
      [] p.kind = "cell" -> StoreCell(v.m, ObjectRef_assign(v.m.h, p.cell, v.val), en)
      [] OTHER -> StoreObject(v.m, Object_assign(v.m.h, p.obj, v.val), p, en)

\* target.assign(&value): the receiver first, then the operand
AssignTo(p, value, en, fns) == Store(p, Eval(value, en, p.m, fns), en)

\* the expression a statement evaluates first
FirstExpr(st) ==
    CASE st.r = "let" -> st.init
      [] st.r = "expr" -> st.e
      [] st.r \in {"if", "while"} -> st.test
      [] OTHER -> st.value

\* a let, an expression statement, an if or a return, its expression evaluated to v
AfterEval(st, v, en, fns) ==
    CASE v.m.res # "ok" -> Step0(v.m, en)
      [] st.r = "let" -> Step0(v.m, Bind(en, st.name, v.val))
      [] st.r = "expr" -> Step0(v.m, en)
      [] st.r = "if" ->
            ExecBlock(IF Object_test(v.m.h, v.val) THEN st.body ELSE st.orelse, en, v.m, fns)
      [] OTHER -> [m |-> v.m, en |-> en, ctl |-> "return", ret |-> v.val]

\* a while, one run of its body done
WhileAfter(st, b, fns) ==
    CASE b.m.res # "ok" -> b
      [] b.ctl = "break" -> [b EXCEPT !.ctl = "next"]
      [] b.ctl = "return" -> b
      [] OTHER -> ExecWhile(st, b.en, b.m, fns)

\* a while, its test evaluated to t
WhileTest(st, t, en, fns) ==
    CASE t.m.res # "ok" -> Step0(t.m, en)
      [] ~Object_test(t.m.h, t.val) -> Step0(t.m, en)
      [] t.m.fuel = 0 -> Step0(Fail(t.m, "fuel"), en)
      [] OTHER -> WhileAfter(st, ExecBlock(st.body, en, [t.m EXCEPT !.fuel = @ - 1], fns), fns)

\* while (test).test() { body }
ExecWhile(st, en, m, fns) == WhileTest(st, Eval(st.test, en, m, fns), en, fns)

\* one emitted statement: [m, en, ctl, ret]
ExecStmt(st, en, m, fns) ==
    CASE st.r \in {"let", "expr", "if", "return"} ->
            AfterEval(st, Eval(FirstExpr(st), en, m, fns), en, fns)
      [] st.r = "assign" -> AssignTo(EvalPlace(st.target, en, m, fns), st.value, en, fns)
      [] st.r = "while" -> ExecWhile(st, en, m, fns)
      [] st.r = "break" -> [m |-> m, en |-> en, ctl |-> "break", ret |-> Object_none]
      [] st.r = "fn" -> Step0(m, en)
      [] OTHER -> Step0(Fail(m, "rustc"), en)

BlockAfter(a, stmts, fns) ==
    IF a.m.res # "ok" \/ a.ctl # "next" THEN a ELSE ExecBlock(stmts, a.en, a.m, fns)

\* the statements of a block, in order, until one leaves the block
ExecBlock(stmts, en, m, fns) ==
    IF stmts = <<>> \/ m.res # "ok" THEN Step0(m, en)
    ELSE BlockAfter(ExecStmt(Head(stmts), en, m, fns), Tail(stmts), fns)

(***************************************************************************)
(* SpecObj: a driver that holds a few Objects and one ObjectRef and calls  *)
(* the operations of object.rs on them.  A call that panics ends the run.  *)
(***************************************************************************)
Slots == {1, 2}

\* cells 1, 2: the elements of list 1; cell 3: holds list 1; cell 4: holds 1;
\* cell 5: the element of list 2, holding list 1
ObjHeap ==
    [cells |-> <<IntV(1), IntV(2), ListV(1), IntV(1), ListV(1)>>,
     lists |-> <<(<<1, 2>>), (<<5>>)>>]

ObjPool ==
    {Ref(3), Ref(4), Transient(ListV(1)), Transient(ListV(2)), Transient(IntV(7)), Transient(NoneV)}

IndexPool == {Transient(IntV(0)), Transient(IntV(1)), Ref(4)}

NoOp == [op |-> "none", a |-> 0, b |-> 0, res |-> "ok", pre |-> EmptyHeap, preobjs |-> <<>>, cell |-> 0]

Done(op, a, b, res, cell) ==
    [op |-> op, a |-> a, b |-> b, res |-> res, pre |-> heap, preobjs |-> objs, cell |-> cell]

InitRun ==
    /\ input = Inp("none", "", <<>>, 0, 0, 0)
    /\ status = "idle"
    /\ ir = <<>>
    /\ definitions = <<>>
    /\ code = <<>>
    /\ env = <<>>
    /\ todo = <<>>
    /\ out = <<>>

InitObj ==
    /\ heap = ObjHeap
    /\ objs \in [Slots -> ObjPool]
    /\ handle = [live |-> FALSE, cell |-> 0]
    /\ last = NoOp
    /\ nops = 0
    /\ InitRun

CanCall == last.res = "ok" /\ nops < MaxOps

\* objs[i].assign(&objs[j])
CallAssign(i, j) ==
    /\ CanCall
    /\ LET r == Object_assign(heap, objs[i], objs[j])
       IN /\ heap' = r.h
          /\ objs' = [objs EXCEPT ![i] = r.self]
          /\ last' = Done("assign", i, j, r.res, objs[i].cell)
    /\ nops' = nops + 1
    /\ UNCHANGED <<handle, runVars>>

\* handle = objs[i].index_ref(&k)
CallIndexRef(i, k) ==
    /\ CanCall
    /\ LET r == Object_index_ref(heap, objs[i], k)
       IN /\ handle' = IF r.res = "ok" THEN [live |-> TRUE, cell |-> r.cell] ELSE handle
          /\ last' = Done("index_ref", i, 0, r.res, r.cell)
    /\ nops' = nops + 1
    /\ UNCHANGED <<heap, objs, runVars>>

\* objs[j] = objs[i].index_value(&k)
CallIndexValue(i, k, j) ==
    /\ CanCall
    /\ LET r == Object_index_value(heap, objs[i], k)
       IN /\ objs' = IF r.res = "ok" THEN [objs EXCEPT ![j] = r.val] ELSE objs
          /\ last' = Done("index_value", i, j, r.res, 0)
    /\ nops' = nops + 1
    /\ UNCHANGED <<heap, handle, runVars>>

\* handle.assign(&objs[j])
CallRefAssign(j) ==
    /\ CanCall
    /\ handle.live
    /\ LET r == ObjectRef_assign(heap, handle.cell, objs[j])
       IN /\ heap' = r.h
          /\ last' = Done("ref_assign", 0, j, r.res, handle.cell)
    /\ nops' = nops + 1
    /\ UNCHANGED <<objs, handle, runVars>>

\* handle = handle.index_ref(&k)
CallRefIndexRef(k) ==
    /\ CanCall
    /\ handle.live
    /\ LET r == ObjectRef_index_ref(heap, handle.cell, k)
       IN /\ handle' = IF r.res = "ok" THEN [live |-> TRUE, cell |-> r.cell] ELSE handle
          /\ last' = Done("ref_index_ref", 0, 0, r.res, r.cell)
    /\ nops' = nops + 1
    /\ UNCHANGED <<heap, objs, runVars>>

\* objs[j] = objs[i].__shallow_copy()
CallShallowCopy(i, j) ==
    /\ CanCall
    /\ LET r == map_1_1(heap, objs[i], "__shallow_copy")
       IN /\ heap' = r.h
          /\ objs' = [objs EXCEPT ![j] = r.val]
          /\ last' = Done("__shallow_copy", i, j, r.res, 0)
    /\ nops' = nops + 1
    /\ UNCHANGED <<handle, runVars>>

NextObj ==
    \/ \E i, j \in Slots : CallAssign(i, j)
    \/ \E i \in Slots, k \in IndexPool : CallIndexRef(i, k)
    \/ \E i, j \in Slots, k \in IndexPool : CallIndexValue(i, k, j)
    \/ \E j \in Slots : CallRefAssign(j)
    \/ \E k \in IndexPool : CallRefIndexRef(k)
    \/ \E i, j \in Slots : CallShallowCopy(i, j)

SpecObj == InitObj /\ [][NextObj]_vars

(***************************************************************************)
(* Spec: the programs.  Each is a syntax tree built from a few parameters; *)
(* the shapes are those of tests/integration_tests.rs.                     *)
(***************************************************************************)
Elems == {5, 6}

Lists(lo, hi) == UNION {[1..n -> Elems] : n \in lo..hi}

Indices(xs) == 0..(Len(xs) - 1)

IntList(xs) == RList([i \in 1..Len(xs) |-> RNum(xs[i])])

PrintCall(args) == SExpr(RCall("print", args))

UnsupportedModes ==
    {"while_else", "for_else", "async_for", "async_def", "decorator", "returns",
     "chain_assign", "pass", "lambda"}

Inputs ==
    UNION {
      {Inp("mutate", mode, xs, i, 0, 0) :
          mode \in {"plain", "rebind_before", "rebind_after"}, i \in Indices(xs)} : xs \in Lists(1, MaxLen)}
    \cup {Inp("short", op, bs, 0, 0, 0) : op \in {"And", "Or"}, bs \in UNION {[1..n -> {0, 1}] : n \in 2..MaxConds}}
    \cup {Inp("for", mode, xs, 0, 0, 0) : mode \in {"print", "assign"}, xs \in Lists(0, MaxLen)}
    \cup {Inp("tuple", mode, xs, 0, 0, 0) : mode \in {"assign", "for"}, xs \in Lists(1, MaxLen)}
    \cup UNION {{Inp("self", "", xs, i, 0, 0) : i \in Indices(xs)} : xs \in Lists(1, MaxLen)}
    \cup UNION {{Inp("array", "", xs, i, j, k) : i \in Indices(xs), j \in Indices(xs), k \in Indices(xs)} :
                    xs \in Lists(1, MaxLen)}
    \cup {Inp("unsupported", mode, <<>>, 0, 0, 0) : mode \in UnsupportedModes}
    \cup {Inp("return", "", <<x, y>>, 0, 0, 0) : x \in Elems, y \in Elems}
    \cup UNION {{Inp("call", "", xs, i, 0, 0) : i \in Indices(xs)} : xs \in Lists(1, MaxLen)}
    \cup UNION {{Inp("aug", op, xs, i, 0, k) : op \in {"Add", "Sub", "Mult"}, i \in Indices(xs), k \in {0, 1}} :
                    xs \in Lists(1, MaxLen)}
    \cup {Inp("loop", mode, xs, 0, 0, 0) :
              mode \in {"append", "pop", "assign", "break", "nested"}, xs \in Lists(1, MaxLen)}
    \cup {Inp("param", mode, <<x>>, 0, 0, 0) : mode \in {"assigned", "unassigned"}, x \in Elems}
    \cup {Inp("nested", mode, <<x, y>>, 0, 0, 0) : mode \in {"assign", "for"}, x \in Elems, y \in Elems}

\* the name of the k-th function or target of a program
Nm(stem, k) == stem \o ToString(k)

Program(inp) ==
    CASE inp.fam = "mutate" ->
            \* def f(arr): arr[i] = 200, with arr = [7, ..] before or after it
            LET idx == SAssign(RSub(RId("arr"), RNum(inp.i)), RNum(200))
                reb == SAssign(RId("arr"), RList([n \in 1..Len(inp.xs) |-> RNum(7)]))
                body == CASE inp.mode = "rebind_before" -> <<reb, idx>>
                          [] inp.mode = "rebind_after" -> <<idx, reb>>
                          [] OTHER -> <<idx>>
            IN << SDef("f", <<"arr">>, body),
                  SAssign(RId("arr"), IntList(inp.xs)),
                  SExpr(RCall("f", <<RId("arr")>>)) >>
      [] inp.fam = "short" ->
            \* def gk(): print(k); return bk      if g1() op g2() ..: print(100) else: print(200)
            [n \in 1..Len(inp.xs) |->
                SDef(Nm("g", n), <<>>,
                     <<PrintCall(<<RNum(n)>>), SRet(<<IF inp.xs[n] = 1 THEN RTrue ELSE RFalse>>)>>)]
            \o << SIf(RBool(inp.mode, [n \in 1..Len(inp.xs) |-> RCall(Nm("g", n), <<>>)]),
                      <<PrintCall(<<RNum(100)>>)>>, <<PrintCall(<<RNum(200)>>)>>) >>
      [] inp.fam = "for" ->
            \* A = xs; for x in A: print(x) (or y = x); print(x)
            << SAssign(RId("A"), IntList(inp.xs)),
               SFor(RId("x"), RId("A"), 2, 10,
                    <<IF inp.mode = "print" THEN PrintCall(<<RId("x")>>) ELSE SAssign(RId("y"), RId("x"))>>),
               PrintCall(<<RId("x")>>) >>
      [] inp.fam = "tuple" ->
            LET targets == RTuple([n \in 1..Len(inp.xs) |-> RId(Nm("t", n))])
                rev == [n \in 1..Len(inp.xs) |-> inp.xs[Len(inp.xs) + 1 - n]]
            IN IF inp.mode = "assign"
               THEN \* def g(): print(9); return xs      t1, .., tn = g()
                    << SDef("g", <<>>, <<PrintCall(<<RNum(9)>>), SRet(<<IntList(inp.xs)>>)>>),
                       SAssign(targets, RCall("g", <<>>)) >>
               ELSE \* for t1, .., tn in [xs, reversed xs]: print(t1, .., tn)
                    << SFor(targets, RList(<<IntList(inp.xs), IntList(rev)>>), 1, 15,
                            <<PrintCall([n \in 1..Len(inp.xs) |-> RId(Nm("t", n))])>>) >>
      [] inp.fam = "self" ->
            \* x = xs; x[i] = x[i]
            << SAssign(RId("x"), IntList(inp.xs)),
               SAssign(RSub(RId("x"), RNum(inp.i)), RSub(RId("x"), RNum(inp.i))) >>
      [] inp.fam = "array" ->
            \* a = xs; b = a[i]; a[j] = a[i]; a[i] = a[k]
            << SAssign(RId("a"), IntList(inp.xs)),
               SAssign(RId("b"), RSub(RId("a"), RNum(inp.i))),
               SAssign(RSub(RId("a"), RNum(inp.j)), RSub(RId("a"), RNum(inp.i))),
               SAssign(RSub(RId("a"), RNum(inp.i)), RSub(RId("a"), RNum(inp.k))) >>
      [] inp.fam = "return" ->
            \* a = x; b = y; return a + b
            << SAssign(RId("a"), RNum(inp.xs[1])),
               SAssign(RId("b"), RNum(inp.xs[2])),
               SRet(<<RBin(RId("a"), "Add", RId("b"))>>) >>
      [] inp.fam = "call" ->
            \* def f(p, q): p[i] = q; print__macro__(p[i])      a = xs; f(a, 200); print__macro__(a[i])
            << SDef("f", <<"p", "q">>,
                    << SAssign(RSub(RId("p"), RNum(inp.i)), RId("q")),
                       SExpr(RCall("print__macro__", <<RSub(RId("p"), RNum(inp.i))>>)) >>),
               SAssign(RId("a"), IntList(inp.xs)),
               SExpr(RCall("f", <<RId("a"), RNum(200)>>)),
               SExpr(RCall("print__macro__", <<RSub(RId("a"), RNum(inp.i))>>)) >>
      [] inp.fam = "aug" ->
            \* def g(): print(1); return i      def h(): print(2); return 3
            \* A = xs; A[g()] op= h()            (k = 1: x = xs[i]; x op= h())
            << SDef("g", <<>>, <<PrintCall(<<RNum(1)>>), SRet(<<RNum(inp.i)>>)>>),
               SDef("h", <<>>, <<PrintCall(<<RNum(2)>>), SRet(<<RNum(3)>>)>>) >>
            \o (IF inp.k = 0
                THEN << SAssign(RId("A"), IntList(inp.xs)),
                        SAug(RSub(RId("A"), RCall("g", <<>>)), inp.mode, RCall("h", <<>>)) >>
                ELSE << SAssign(RId("x"), RNum(inp.xs[inp.i + 1])),
                        SAug(RId("x"), inp.mode, RCall("h", <<>>)) >>)
      [] inp.fam = "loop" ->
            \* A = xs; for x in A: <body>, the body changing A, leaving early, or looping over A again
            LET show == PrintCall(<<RId("x")>>)
                body == CASE inp.mode = "append" -> <<SExpr(RMethod(RId("A"), "append", <<RId("x")>>)), show>>
                          [] inp.mode = "pop" -> <<SExpr(RMethod(RId("A"), "pop", <<>>)), show>>
                          [] inp.mode = "assign" -> <<SAssign(RSub(RId("A"), RNum(0)), RNum(9)), show>>
                          [] inp.mode = "break" ->
                                <<SIf(RCmp(RId("x"), "Equal", RNum(6)), <<SBreak>>, <<>>), show>>
                          [] OTHER ->
                                <<SFor(RId("y"), RId("A"), 3, 14, <<PrintCall(<<RId("x"), RId("y")>>)>>)>>
            IN << SAssign(RId("A"), IntList(inp.xs)),
                  SFor(RId("x"), RId("A"), 2, 10, body) >>
      [] inp.fam = "param" ->
            \* def f(n): print(n); n = 7     f(x)          (unassigned: without n = 7)
            << SDef("f", <<"n">>,
                    <<PrintCall(<<RId("n")>>)>>
                    \o (IF inp.mode = "assigned" THEN <<SAssign(RId("n"), RNum(7))>> ELSE <<>>)),
               SExpr(RCall("f", <<RNum(inp.xs[1])>>)) >>
      [] inp.fam = "nested" ->
            \* a = 0; b = 0; (a, b), c = [xs, 7]; print(a, b)     (or: for (a, b), c in [[xs, 7]]: pass)
            LET target == RTuple(<<RTuple(<<RId("a"), RId("b")>>), RId("c")>>)
                item == RList(<<IntList(inp.xs), RNum(7)>>)
                show == PrintCall(<<RId("a"), RId("b")>>)
            IN << SAssign(RId("a"), RNum(0)), SAssign(RId("b"), RNum(0)) >>
               \o (IF inp.mode = "assign"
                   THEN <<SAssign(target, item)>>
                   ELSE <<SFor(target, RList(<<item>>), 3, 17, <<PrintCall(<<RId("c")>>)>>)>>)
               \o <<show>>
      [] inp.fam = "unsupported" ->
            LET p1 == PrintCall(<<RNum(1)>>)
                p2 == PrintCall(<<RNum(2)>>)
                def == SDef("f", <<>>, <<p1>>)
                call == SExpr(RCall("f", <<>>))
            IN CASE inp.mode = "while_else" -> <<[SWhile(RFalse, <<p1>>) EXCEPT !.orelse = <<p2>>]>>
                 [] inp.mode = "for_else" ->
                        <<[SFor(RId("x"), RList(<<>>), 1, 10, <<p1>>) EXCEPT !.orelse = <<p2>>]>>
                 [] inp.mode = "async_for" ->
                        <<[SFor(RId("x"), RList(<<RNum(5)>>), 1, 16, <<p1>>) EXCEPT !.is_async = TRUE]>>
                 [] inp.mode = "async_def" -> <<[def EXCEPT !.is_async = TRUE], call>>
                 [] inp.mode = "decorator" -> <<[def EXCEPT !.decorator_list = <<RId("d")>>], call>>
                 [] inp.mode = "returns" -> <<[def EXCEPT !.returns = <<RId("int")>>], call>>
                 [] inp.mode = "chain_assign" -> <<p1, SChain(<<RId("a"), RId("b")>>, RNum(1))>>
                 [] inp.mode = "pass" -> <<p1, SPass>>
                 [] OTHER -> <<p1, SExpr(RLambda)>>
      [] OTHER -> <<>>

(***************************************************************************)
(* Spec: the pipeline, then main() one statement (one loop iteration) at a *)
(* time.                                                                   *)
(***************************************************************************)
EmptyEnv == [n \in {} |-> Object_none]

IdleObj ==
    /\ objs = <<>>
    /\ handle = [live |-> FALSE, cell |-> 0]
    /\ last = NoOp
    /\ nops = 0

Init ==
    /\ input \in Inputs
    /\ status = "source"
    /\ ir = <<>>
    /\ definitions = <<>>
    /\ code = <<>>
    /\ env = EmptyEnv
    /\ todo = <<>>
    /\ out = <<>>
    /\ heap = EmptyHeap
    /\ IdleObj

\* Statement::parse over the module's statements; a panic ends the compilation
Parse ==
    /\ status = "source"
    /\ LET statements == parse_statements(Program(input))
       IN IF StatementPanics(statements)
          THEN status' = "failed" /\ ir' = <<>>
          ELSE status' = "parsed" /\ ir' = statements
    /\ UNCHANGED <<objVars, input, definitions, code, env, todo, out>>

\* the definition analysis
Resolve ==
    /\ status = "parsed"
    /\ definitions' = CollectDefinitions(ir)
    /\ status' = "resolved"
    /\ UNCHANGED <<objVars, input, ir, code, env, todo, out>>

\* generate_code; a panic ends the compilation
Generate ==
    /\ status = "resolved"
    /\ LET main == generate_code(ir, definitions)
       IN IF RStatementPanics(<<main>>)
          THEN status' = "failed" /\ code' = <<>> /\ todo' = <<>>
          ELSE status' = "running" /\ code' = main /\ todo' = main.body
    /\ UNCHANGED <<objVars, input, ir, definitions, env, out>>

Machine == [h |-> heap, out |-> out, res |-> "ok", fuel |-> MaxFuel]

Fns == CollectFns(code.body)

\* why a program stopped, as a status
Stopped(res) ==
    CASE res \in {"error", "todo", "borrow"} -> "aborted"
      [] OTHER -> res

\* the machine and the environment after a step; next is what is left of main()
Land(r, next) ==
    /\ heap' = r.m.h
    /\ out' = r.m.out
    /\ env' = r.en
    /\ IF r.m.res # "ok" THEN status' = Stopped(r.m.res) /\ todo' = todo
       ELSE IF r.ctl = "return" THEN status' = "done" /\ todo' = <<>>
       ELSE IF r.ctl = "break" THEN status' = status /\ todo' = Tail(todo)
       ELSE status' = status /\ todo' = next
    /\ UNCHANGED <<objs, handle, last, nops, input, ir, definitions, code>>

AtStmt(kind) == status = "running" /\ todo # <<>> /\ Head(todo).r = kind

\* let mut name = Value::none();
StepLet == AtStmt("let") /\ Land(ExecStmt(Head(todo), env, Machine, Fns), Tail(todo))

\* target.assign(&value);
StepAssign == AtStmt("assign") /\ Land(ExecStmt(Head(todo), env, Machine, Fns), Tail(todo))

\* value;
StepExpression == AtStmt("expr") /\ Land(ExecStmt(Head(todo), env, Machine, Fns), Tail(todo))

\* if (test).test() { .. } else { .. }
StepIf == AtStmt("if") /\ Land(ExecStmt(Head(todo), env, Machine, Fns), Tail(todo))

\* fn name(..) -> Value { .. }: an item, nothing runs
StepFn == AtStmt("fn") /\ Land(ExecStmt(Head(todo), env, Machine, Fns), Tail(todo))

\* return Value::from(value);
StepReturn == AtStmt("return") /\ Land(ExecStmt(Head(todo), env, Machine, Fns), Tail(todo))

\* a while of main(), its test evaluated to t: one run of the body when it holds
WhileStep(st, t) ==
    CASE t.m.res # "ok" -> Land(Step0(t.m, env), todo)
      [] ~Object_test(t.m.h, t.val) -> Land(Step0(t.m, env), Tail(todo))
      [] OTHER -> Land(ExecBlock(st.body, env, t.m, Fns), todo)

\* one test of a while, and one run of its body when the test holds
StepWhile == AtStmt("while") /\ WhileStep(Head(todo), Eval(Head(todo).test, env, Machine, Fns))

\* the end of main()
Finish ==
    /\ status = "running"
    /\ todo = <<>>
    /\ status' = "done"
    /\ UNCHANGED <<objVars, input, ir, definitions, code, env, todo, out>>

Next ==
    \/ Parse
    \/ Resolve
    \/ Generate
    \/ StepLet
    \/ StepAssign
    \/ StepExpression
    \/ StepIf
    \/ StepFn
    \/ StepReturn
    \/ StepWhile
    \/ Finish

Spec == Init /\ [][Next]_vars

(***************************************************************************)
(* Properties.                                                             *)
(***************************************************************************)
Terminal == status \in {"done", "aborted", "failed", "rustc", "fuel"}

Generated == status \in {"running", "done", "aborted", "rustc", "fuel"}

\* the elements of the list a variable of main() is bound to
ListOf(name) == ListValues(heap, Content(heap, env[name]))

Ints(xs) == [n \in 1..Len(xs) |-> IntV(xs[n])]

\* C1: a list passed to a function is shared with the caller element by
\* element but not as a binding: an index assignment the callee makes through
\* the parameter is seen in the caller's variable, and rebinding the parameter
\* in the callee (before or after the index assignment) leaves the caller's
\* variable bound to the list it passed.
C1_IndexAssignSharedRebindingLocal ==
    (input.fam = "mutate" /\ Terminal) =>
        /\ status = "done"
        /\ Content(heap, env["arr"]) = ListV(1)
        /\ ListOf("arr") = Ints(IF input.mode = "rebind_before"
                                THEN input.xs
                                ELSE [input.xs EXCEPT ![input.i + 1] = 200])

\* C2: the operands of an and/or are evaluated left to right and only as far
\* as needed: operand k runs only if every earlier operand was truthy (and) or
\* falsy (or), and the branch taken is the one the first deciding operand
\* gives.
C2_Decides(b) == IF input.mode = "And" THEN b = 0 ELSE b = 1

C2_Evaluated ==
    LET stops == {k \in 1..Len(input.xs) : C2_Decides(input.xs[k])}
    IN IF stops = {} THEN Len(input.xs) ELSE CHOOSE k \in stops : \A j \in stops : k <= j

C2_Truth == IF input.mode = "And"
            THEN \A k \in 1..Len(input.xs) : input.xs[k] = 1
            ELSE \E k \in 1..Len(input.xs) : input.xs[k] = 1

C2_ShortCircuit ==
    input.fam = "short" =>
        /\ \A n \in 1..Len(out) :
              out[n][1].v \in 1..Len(input.xs) =>
                  /\ out[n][1].v = n
                  /\ \A j \in 1..(n - 1) : ~C2_Decides(input.xs[j])
        /\ Terminal =>
              /\ status = "done"
              /\ out = [n \in 1..(C2_Evaluated + 1) |->
                           <<IntV(IF n <= C2_Evaluated THEN n ELSE IF C2_Truth THEN 100 ELSE 200)>>]

C2_Witness ==
    /\ input.fam = "short"
    /\ status = "done"
    /\ C2_Evaluated < Len(input.xs)
    /\ Len(out) = C2_Evaluated + 1

\* C3: a for loop runs its body once per element of the iterable, in the
\* iterable's own order, and leaves the target bound to the last element.
C3_ForInOrder ==
    (input.fam = "for" /\ Terminal) =>
        LET n == Len(input.xs)
        IN /\ status = "done"
           /\ n > 0 => Content(heap, env["x"]) = IntV(input.xs[n])
           /\ (n > 0 /\ input.mode = "assign") => Content(heap, env["y"]) = IntV(input.xs[n])
           /\ input.mode = "print" =>
                 out = [k \in 1..(n + 1) |->
                           <<IF k <= n THEN IntV(input.xs[k])
                             ELSE IF n = 0 THEN NoneV ELSE IntV(input.xs[n])>>]
           /\ ListOf("A") = Ints(input.xs)

C3_Witness ==
    /\ input.fam = "for"
    /\ input.mode = "print"
    /\ status = "done"
    /\ Len(input.xs) >= 2
    /\ input.xs[1] # input.xs[2]
    /\ Len(out) = Len(input.xs) + 1

\* C4: a tuple target t1, .., tn = e is lowered to __tmp_for_tuple = e followed
\* by tk = __tmp_for_tuple[k-1] for each k in order, so e is evaluated exactly
\* once and every target receives its element; a for loop with a tuple target
\* unpacks each item the same way.
C4_Lowered(stmts, value) ==
    /\ Len(stmts) >= Len(input.xs) + 1
    /\ stmts[1] = Assign(VariableName("__tmp_for_tuple"), value)
    /\ \A k \in 1..Len(input.xs) :
          stmts[k + 1] = Assign(VariableName(Nm("t", k)),
                                Index(VariableName("__tmp_for_tuple"), ConstantNumber(k - 1)))

C4_TupleTarget ==
    input.fam = "tuple" =>
        /\ (status # "source" /\ input.mode = "assign") =>
              /\ status # "failed"
              /\ Len(ir) = Len(input.xs) + 2
              /\ C4_Lowered(SubSeq(ir, 2, Len(ir)), CallFunction("g", <<>>))
        /\ (status # "source" /\ input.mode = "for") =>
              /\ status # "failed"
              /\ Len(ir) = 3
              /\ ir[3].s = "While"
              /\ C4_Lowered(ir[3].body, CallMethod(ir[1].target, "pop", <<>>))
        /\ (Terminal /\ input.mode = "assign") =>
              /\ status = "done"
              /\ out = << <<IntV(9)>> >>
              /\ \A k \in 1..Len(input.xs) : Content(heap, env[Nm("t", k)]) = IntV(input.xs[k])
        /\ (Terminal /\ input.mode = "for") =>
              /\ status = "done"
              /\ out = << Ints(input.xs),
                          [k \in 1..Len(input.xs) |-> IntV(input.xs[Len(input.xs) + 1 - k])] >>

C4_Witness ==
    /\ input.fam = "tuple"
    /\ input.mode = "assign"
    /\ status = "done"
    /\ Len(input.xs) >= 2
    /\ input.xs[1] # input.xs[2]
    /\ Content(heap, env["t2"]) = IntV(input.xs[2])

ScopeBody(scope) ==
    IF scope = ""
    THEN code.body
    ELSE LET f == CHOOSE f \in CollectFns(code.body) : f.name = scope
         IN SubSeq(f.body, Len(f.args) + 1, Len(f.body))

RECURSIVE AssignedIn(_)
\* the variables the statements of an emitted body assign to, nested functions apart
AssignedIn(stmts) ==
    UNION { LET st == stmts[n]
            IN CASE st.r = "assign" /\ st.target.r = "var" -> {st.target.name}
                 [] st.r = "if" -> AssignedIn(st.body) \cup AssignedIn(st.orelse)
                 [] st.r = "while" -> AssignedIn(st.body)
                 [] OTHER -> {}
            : n \in 1..Len(stmts) }

C6_DeclaredFirst(scope) ==
    LET stmts == ScopeBody(scope)
        n == Cardinality(definitions[scope])
    IN /\ Len(stmts) >= n
       /\ \A k \in 1..n :
             /\ stmts[k].r = "let"
             /\ stmts[k].init = RNone
             /\ stmts[k].name \in definitions[scope]
       /\ \A j, k \in 1..n : j < k => StrLess(stmts[j].name, stmts[k].name)
       /\ \A k \in (n + 1)..Len(stmts) : stmts[k].r # "let"
       /\ AssignedIn(stmts) \subseteq {stmts[k].name : k \in 1..n}

\* C6: every emitted body (each function's and the entry's) begins with one
\* `let mut name = none` per name of its scope's definition set, in ascending
\* lexicographic order, before its first statement, so that every name a
\* statement of the scope assigns has been declared earlier in the body.
C6_Predeclared ==
    Generated =>
        /\ "" \in DOMAIN definitions
        /\ \A f \in CollectFns(code.body) : f.name \in DOMAIN definitions
        /\ \A scope \in DOMAIN definitions : C6_DeclaredFirst(scope)

C6_Witness ==
    /\ status = "running"
    /\ input.fam = "tuple"
    /\ input.mode = "for"
    /\ Len(input.xs) >= 2
    /\ Cardinality(definitions[""]) >= 4
    /\ code.body[1].r = "let"

\* the call before the current state assigned into a shared cell from a value
\* that is not that same cell
C7_Assigned ==
    /\ last.op \in {"assign", "ref_assign"}
    /\ last.cell # 0
    /\ ~(last.preobjs[last.b].t = "Ref" /\ last.preobjs[last.b].cell = last.cell)

\* C7: assign on a Reference target, or on a handle obtained from index_ref,
\* overwrites the Value in the target's cell with the content of the value,
\* whether the value is a Reference or a Transient, and changes no other cell.
C7_AssignOverwritesCell ==
    C7_Assigned =>
        /\ last.res = "ok"
        /\ heap.cells[last.cell] = Content(last.pre, last.preobjs[last.b])
        /\ \A c \in 1..Len(heap.cells) : c # last.cell => heap.cells[c] = last.pre.cells[c]
        /\ Len(heap.cells) = Len(last.pre.cells)
        /\ heap.lists = last.pre.lists

\* what a = xs; b = a[i]; a[j] = a[i]; a[i] = a[k] leaves in a
C8_Expected ==
    LET a1 == [input.xs EXCEPT ![input.j + 1] = input.xs[input.i + 1]]
    IN [a1 EXCEPT ![input.i + 1] = a1[input.k + 1]]

C9_Overlapping ==
    /\ last.op = "assign"
    /\ last.preobjs[last.a].t = "Ref"
    /\ last.preobjs[last.b].t = "Ref"
    /\ last.preobjs[last.a].cell = last.preobjs[last.b].cell

C10_UnsupportedFails ==
    input.fam = "unsupported" =>
        /\ status \in {"source", "failed"}
        /\ ir = <<>>
        /\ out = <<>>

\* C11: a tuple target with a nested tuple element ((a, b), c = e, also as the
\* target of a for loop) makes compilation fail: no code is generated for it
\* and nothing of it runs.
C11_NestedTupleFails ==
    input.fam = "nested" =>
        /\ ~Generated
        /\ out = <<>>

RECURSIVE CallsOf(_)
\* the call and macro expressions within an emitted expression
CallsOf(e) ==
    (IF e.r \in {"call", "macro"} THEN {e} ELSE {})
    \cup UNION { CallsOf(Operands(e)[n]) : n \in 1..Len(Operands(e)) }
    \cup (IF e.r = "from_tests"
          THEN UNION { CallsOf(e.conditions[n]) : n \in 1..Len(e.conditions) }
          ELSE {})

RECURSIVE CallsIn(_)
\* the call and macro expressions within emitted statements, nested fns included
CallsIn(stmts) ==
    UNION { LET st == stmts[n]
            IN CASE st.r = "assign" -> CallsOf(st.target) \cup CallsOf(st.value)
                 [] st.r \in {"let", "expr", "return"} -> CallsOf(FirstExpr(st))
                 [] st.r = "if" -> CallsOf(st.test) \cup CallsIn(st.body) \cup CallsIn(st.orelse)
                 [] st.r = "while" -> CallsOf(st.test) \cup CallsIn(st.body)
                 [] st.r = "fn" -> CallsIn(st.body)
                 [] OTHER -> {}
            : n \in 1..Len(stmts) }

IsCopy(e) == e.r = "method" /\ e.name = "__shallow_copy"

\* the calls of emitted fns, and the macro invocations, of the emitted code
UserCalls == {c \in CallsIn(code.body) : c.r = "call" /\ \E f \in Fns : f.name = c.name}

MacroCalls == {c \in CallsIn(code.body) : c.r = "macro"}

MacrosDirect == \A c \in MacroCalls : \A n \in 1..Len(c.args) : ~IsCopy(c.args[n])

\* C12 as stated: the shallow copy of each argument of a call of a
\* user-defined function is taken at the call site and the callee copies
\* nothing; a built-in (name__macro__) is emitted as a macro invocation
\* without a copy.
C12_CopyAtCallSite ==
    Generated =>
        /\ \A c \in UserCalls : \A n \in 1..Len(c.args) : IsCopy(c.args[n])
        /\ \A f \in Fns : \A n \in 1..Len(f.body) : ~(f.body[n].r = "let" /\ IsCopy(f.body[n].init))
        /\ MacrosDirect

\* C12 amended: the call site passes each argument as it is, and the emitted
\* function begins with `let mut p = p.__shallow_copy();` for each parameter p
\* in order, before anything else of its body; the element cells stay shared
\* with the caller.  A built-in (name__macro__) is emitted as a macro
\* invocation of the stem, its arguments uncopied.
C12_CopyInCallee ==
    /\ Generated =>
          /\ \A c \in UserCalls : \A n \in 1..Len(c.args) : ~IsCopy(c.args[n])
          /\ \A f \in Fns :
                /\ Len(f.body) >= Len(f.args)
                /\ \A n \in 1..Len(f.args) :
                      f.body[n] = RLet(f.args[n], RMethodCall(RVar(f.args[n]), "__shallow_copy", <<>>))
          /\ MacrosDirect
          /\ \A c \in CallsIn(code.body) : strip_suffix(c.name, "__macro__") = <<>>
    /\ (input.fam = "call" /\ Generated) =>
          /\ Cardinality(MacroCalls) = 2
          /\ \A c \in MacroCalls : c.name = "print"
    /\ (input.fam = "call" /\ Terminal) =>
          /\ status = "done"
          /\ out = << <<IntV(200)>>, <<IntV(200)>> >>
          /\ Content(heap, env["a"]) = ListV(1)
          /\ ListOf("a") = Ints([input.xs EXCEPT ![input.i + 1] = 200])

C12_Witness ==
    /\ input.fam = "call"
    /\ status = "done"
    /\ Len(input.xs) >= 2
    /\ UserCalls # {}
    /\ ListOf("a")[input.i + 1] = IntV(200)

\* what old op 3 is, for the operator of the program
C13_Applied(old) ==
    CASE input.mode = "Add" -> old + 3
      [] input.mode = "Sub" -> old - 3
      [] OTHER -> old * 3

C13_Target ==
    IF input.k = 0 THEN Index(VariableName("A"), CallFunction("g", <<>>)) ELSE VariableName("x")

\* C13: x op= y is lowered to the one statement Assign{x, BinaryOperation{x, y,
\* op}} with the same operator, so x is evaluated twice (as the target, then
\* as the left operand) and y once, after them; for an index target A[i] the
\* element ends as old A[i] op y and the other elements are unchanged.
C13_AugAssign ==
    input.fam = "aug" =>
        /\ status # "source" =>
              /\ status # "failed"
              /\ Len(ir) = 4
              /\ ir[4] = [s |-> "Assign", target |-> C13_Target,
                          value |-> [x |-> "BinaryOperation", left |-> C13_Target,
                                     right |-> CallFunction("h", <<>>),
                                     op |-> IF input.mode = "Mult" THEN "Mul" ELSE input.mode]]
        /\ Terminal =>
              /\ status = "done"
              /\ input.k = 0 =>
                    /\ out = << <<IntV(1)>>, <<IntV(1)>>, <<IntV(2)>> >>
                    /\ ListOf("A") = Ints([input.xs EXCEPT ![input.i + 1] = C13_Applied(@)])
              /\ input.k = 1 =>
                    /\ out = << <<IntV(2)>> >>
                    /\ Content(heap, env["x"]) = IntV(C13_Applied(input.xs[input.i + 1]))

C13_Witness ==
    /\ input.fam = "aug"
    /\ input.mode = "Sub"
    /\ input.k = 0
    /\ status = "done"
    /\ Len(input.xs) >= 2
    /\ Len(out) = 3
    /\ ListOf("A")[input.i + 1] = IntV(input.xs[input.i + 1] - 3)

\* the elements before the first 6
C14_UntilBreak ==
    LET n == Len(input.xs)
        stops == {k \in 1..n : input.xs[k] = 6}
        first == IF stops = {} THEN n + 1 ELSE CHOOSE k \in stops : \A j \in stops : k <= j
    IN SubSeq(input.xs, 1, first - 1)

C14_Lines(xs) == [k \in 1..Len(xs) |-> <<IntV(xs[k])>>]

\* the loop of main() is about to test its temporary
C14_AtLoop ==
    /\ status = "running"
    /\ todo # <<>>
    /\ Head(todo).r = "while"

\* some step of the compiler or of main() can be taken
C14_CanStep ==
    \/ status \in {"source", "parsed", "resolved"}
    \/ /\ status = "running"
       /\ \/ todo = <<>>
          \/ \E kind \in {"let", "assign", "expr", "if", "fn", "return", "while"} : AtStmt(kind)

\* the elements left in the temporary of the loop whose iterable is at row, col
C14_Left(row, col) ==
    LET name == "__tmp_variable_for_for_loop_" \o ToString(row) \o "_" \o ToString(col)
    IN IF name \in DOMAIN env /\ Content(heap, env[name]).k = "list"
       THEN Len(ListOf(name))
       ELSE -1

C14_BodyRuns ==
    input.fam = "loop" =>
        LET n == Len(input.xs)
        IN /\ status # "fuel"
           /\ ~Terminal => C14_CanStep
           /\ (C14_AtLoop /\ input.mode \in {"append", "pop", "assign"}) =>
                 C14_Left(2, 10) + Len(out) = n
           /\ (C14_AtLoop /\ input.mode = "nested") =>
                 /\ C14_Left(2, 10) * n + Len(out) = n * n
                 /\ Len(out) > 0 => C14_Left(3, 14) = 0
           /\ Terminal =>
                 /\ status = "done"
                 /\ input.mode \in {"append", "pop", "assign"} => out = C14_Lines(input.xs)
                 /\ input.mode = "append" => ListOf("A") = Ints(input.xs \o input.xs)
                 /\ input.mode = "pop" => Len(ListOf("A")) = 0
                 /\ input.mode = "assign" => ListOf("A") = Ints([input.xs EXCEPT ![1] = 9])
                 /\ input.mode = "break" => out = C14_Lines(C14_UntilBreak)
                 /\ input.mode = "nested" =>
                       out = [k \in 1..(n * n) |->
                                 <<IntV(input.xs[((k - 1) \div n) + 1]), IntV(input.xs[((k - 1) % n) + 1])>>]

\* C14: the lowered for loop ends when its body ends.  Its temporary list is
\* made once before the loop and loses one element per iteration, so the
\* body runs len(list(iter)) times unless a break leaves the loop, also when
\* the body appends to, pops from or assigns into the iterable, and for a
\* loop nested in another, each with its own temporary.
C14_ForTerminates ==
    /\ []C14_BodyRuns
    /\ [][(input.fam = "loop" /\ C14_AtLoop /\ C14_AtLoop') =>
             (C14_Left(2, 10) > 0 /\ C14_Left(2, 10)' = C14_Left(2, 10) - 1)]_vars

C14_Witness ==
    /\ input.fam = "loop"
    /\ input.mode = "append"
    /\ status = "done"
    /\ Len(input.xs) >= 2
    /\ Len(out) = Len(input.xs)
    /\ Len(ListOf("A")) = 2 * Len(input.xs)

\* C15: in an emitted function each parameter holds (a copy of) the caller's
\* argument when the first statement of the body runs, also when the body
\* assigns to the parameter: no declaration to none of a parameter's name
\* follows the parameter's binding, and the first statement sees the argument.
C15_ParameterKept ==
    /\ (input.fam = "param" /\ Generated) =>
          \A f \in Fns : \A n \in 1..Len(f.body) :
              (f.body[n].r = "let" /\ f.body[n].init = RNone) =>
                  \A k \in 1..Len(f.args) : f.body[n].name # f.args[k]
    /\ (input.fam = "param" /\ Terminal) =>
          /\ status = "done"
          /\ out = << <<IntV(input.xs[1])>> >>

====
